---- MODULE Spec2Model ----
(***************************************************************************)
(* Model of the Ensemble Combiner (app/ml/models/ensemble.py,              *)
(* class EnsembleForecaster) and of the calling conventions of the volume  *)
(* adapters it drives; of the exogenous-event overlay (app/ml/exogenous.py, *)
(* class ExogenousVariableManager); of the forecast service                *)
(* (app/ml/inference.py) and of the /simulate endpoint                     *)
(* (app/api/scenarios.py).                                                 *)
(*                                                                         *)
(* Specifications.  Spec: one caller and an ensemble; SpecPersist: save    *)
(* and load; SpecEval: evaluate_models; SpecScenario: the calls on the     *)
(* event manager; SpecService: forecast_volume and /simulate; SpecShared:  *)
(* predict_volume in a second thread while the weights are set;            *)
(* SpecRoundTrip: an evaluated ensemble saved and loaded; SpecAdapters:    *)
(* the adapters under their conventional names; SpecCatalog:               *)
(* create_exogenous_features on catalogs with overlapping intervals.       *)
(*                                                                         *)
(* Numbers.  The code computes with IEEE doubles (Python float and         *)
(* numpy.float64).  The model computes with exact extended rationals       *)
(* [n, d]: d > 0 is the rational n/d in lowest terms, and d = 0 encodes    *)
(* the three special doubles the code can produce: <<1,0>> = +inf,         *)
(* <<-1,0>> = -inf, <<0,0>> = NaN.  Rounding error is not modelled, signed *)
(* zero is not modelled; the propagation of inf and NaN is.                *)
(***************************************************************************)
EXTENDS Integers, Sequences, FiniteSets, TLC

----------------------------------------------------------------------------
(* Extended rational arithmetic (the float operations the code uses)       *)

RECURSIVE GCD(_, _)
GCD(a, b) == IF b = 0 THEN a ELSE GCD(b, a % b)

AbsInt(a) == IF a < 0 THEN 0 - a ELSE a

SignInt(a) == IF a < 0 THEN 0 - 1 ELSE IF a > 0 THEN 1 ELSE 0

\* the rational n/d (d # 0) in lowest terms with a positive denominator
Rat(n, d) ==
    LET g == GCD(AbsInt(n), AbsInt(d))
        s == SignInt(d)
    IN  [n |-> (s * n) \div g, d |-> AbsInt(d) \div g]

Num(k) == [n |-> k, d |-> 1]

NaN == [n |-> 0, d |-> 0]

PosInf == [n |-> 1, d |-> 0]

NegInf == [n |-> 0 - 1, d |-> 0]

IsNaN(x) == x.d = 0 /\ x.n = 0

IsInf(x) == x.d = 0 /\ x.n # 0

IsFinite(x) == x.d > 0

\* float addition
Add(a, b) ==
    IF IsNaN(a) \/ IsNaN(b) THEN NaN
    ELSE IF IsInf(a) /\ IsInf(b) THEN (IF a.n = b.n THEN a ELSE NaN)
    ELSE IF IsInf(a) THEN a
    ELSE IF IsInf(b) THEN b
    ELSE LET g == GCD(a.d, b.d)
         IN  Rat(a.n * (b.d \div g) + b.n * (a.d \div g), (a.d \div g) * b.d)

\* float multiplication
Mul(a, b) ==
    IF IsNaN(a) \/ IsNaN(b) THEN NaN
    ELSE IF IsInf(a) \/ IsInf(b)
         THEN (IF a.n = 0 \/ b.n = 0 THEN NaN
               ELSE IF SignInt(a.n) = SignInt(b.n) THEN PosInf ELSE NegInf)
    ELSE LET g1 == GCD(AbsInt(a.n), b.d)
             g2 == GCD(AbsInt(b.n), a.d)
         IN  Rat((a.n \div g1) * (b.n \div g2), (a.d \div g2) * (b.d \div g1))

Neg(a) == [n |-> 0 - a.n, d |-> a.d]

Sub(a, b) == Add(a, Neg(b))

\* abs() on a float
Abs(a) == [n |-> AbsInt(a.n), d |-> a.d]

\* a > b on floats: any comparison with NaN is False
Gt(a, b) ==
    IF IsNaN(a) \/ IsNaN(b) THEN FALSE
    ELSE IF IsInf(a) THEN a.n = 1 /\ b # PosInf
    ELSE IF IsInf(b) THEN b.n = 0 - 1
    ELSE LET g == GCD(a.d, b.d)
         IN  a.n * (b.d \div g) > b.n * (a.d \div g)

\* numpy division: never raises, x/0 is +-inf or NaN
NpDiv(a, b) ==
    IF IsNaN(a) \/ IsNaN(b) THEN NaN
    ELSE IF IsInf(b) THEN (IF IsInf(a) THEN NaN ELSE Num(0))
    ELSE IF b.n = 0
         THEN (IF IsInf(a) THEN a
               ELSE IF a.n = 0 THEN NaN
               ELSE IF a.n > 0 THEN PosInf ELSE NegInf)
    ELSE IF IsInf(a) THEN (IF SignInt(a.n) = SignInt(b.n) THEN PosInf ELSE NegInf)
    ELSE Mul(a, Rat(b.d, b.n))

----------------------------------------------------------------------------
(* Finite maps (Python dicts)                                              *)

EmptyMap == << >>

\* d[k] = v on a dict
MapSet(f, k, v) == [x \in (DOMAIN f) \cup {k} |-> IF x = k THEN v ELSE f[x]]

PartialMaps(D, V) == UNION {[S -> V] : S \in SUBSET D}

\* sum(d.values()): Python's sum starts from the int 0
RECURSIVE SumOver(_, _)
SumOver(f, S) ==
    IF S = {} THEN Num(0)
    ELSE LET k == CHOOSE x \in S : TRUE
         IN  Add(SumOver(f, S \ {k}), f[k])

SumValues(f) == SumOver(f, DOMAIN f)

----------------------------------------------------------------------------
(* Bounds and input domains                                                *)

\* largest number of forecast periods requested in one call
MaxSteps == 2

\* the names under which models are registered and weighted
ModelNames == {"sarima", "lstm"}

\* the adapter classes of the repository
AdapterClasses ==
    {"SARIMAVolumeModel", "ProphetVolumeModel", "LSTMVolumeModel",
     "XGBoostForecastModel"}

\* weights a caller passes to the constructor, add_model and set_weights
WeightVals ==
    {Rat(0 - 1, 2), Num(0), Rat(1, 2), Num(1), Rat(3, 2),
     Rat(1000001, 1000000)}

WeightMaps == PartialMaps(ModelNames, WeightVals)

Registries == PartialMaps(ModelNames, AdapterClasses)

\* the tolerance 1e-6 of set_weights and predict_volume
Tol == Rat(1, 1000000)

\* a metric value: np tells a numpy.float64 (as evaluate_models produces)
\* from a Python int or float (as a caller writes in a literal record)
Py(k) == [x |-> Num(k), np |-> FALSE]

Np(k) == [x |-> Num(k), np |-> TRUE]

ScoreVals == {Py(0), Np(0), Py(10), Np(20), Np(40)}

\* what a PerformanceRecord holds for one model: metric name -> value
RecordEntries ==
    {[mape |-> s] : s \in ScoreVals}
        \cup {[rmse |-> Np(10)], [rmse |-> Np(10), mape |-> Np(20)]}

PerformanceRecords == PartialMaps(ModelNames, RecordEntries)

MetricArgs == {"mape", "rmse"}

\* first value of the forecasts a fitted adapter returns
ForecastBases == {10, 30}

----------------------------------------------------------------------------
(* Model adapters: what the combiner's calls meet                          *)

\* hasattr(model, method)
HasAttr(class, method) ==
    \/ method = "predict"
    \/ method = "predict_with_intervals" /\ class # "XGBoostForecastModel"

\* the arguments the combiner passes: (train_data, steps=steps) for the
\* name 'lstm', else (steps=steps) resp. (steps=steps, alpha=alpha)
CallStyle(name, method) ==
    IF name = "lstm" THEN "series_steps"
    ELSE IF method = "predict" THEN "steps" ELSE "steps_alpha"

\* does the adapter's signature bind these arguments (else TypeError)
Accepts(class, method, style) ==
    \/ class = "SARIMAVolumeModel" /\ style \in {"steps", "steps_alpha"}
    \/ class = "LSTMVolumeModel" /\ style = "series_steps"

\* the point forecast of an adapter for `steps` periods
Forecast(base, steps) == [i \in 1..steps |-> Num(base + 10 * (i - 1))]

\* the interval result of an adapter: forecast, ci_lower, ci_upper
Intervals(base, steps) ==
    [forecast |-> Forecast(base, steps),
     ci_lower |-> [i \in 1..steps |-> Sub(Forecast(base, steps)[i], Num(5))],
     ci_upper |-> [i \in 1..steps |-> Add(Forecast(base, steps)[i], Num(5))]]

Raised(err) == [ok |-> FALSE, err |-> err, base |-> 0]

Returned(base) == [ok |-> TRUE, err |-> "", base |-> base]

\* what one invocation can do: TypeError when the arguments do not bind,
\* otherwise the adapter raises (not fitted, library error) or returns
CallOutcomes(name, class, method) ==
    IF ~Accepts(class, method, CallStyle(name, method))
    THEN {Raised("TypeError")}
    ELSE {Raised("ValueError")} \cup {Returned(b) : b \in ForecastBases}

\* the models a fan-out reaches: registered, weighted, having the method
Invoked(m, w, method) ==
    {name \in (DOMAIN m) \cap (DOMAIN w) : HasAttr(m[name], method)}

\* the outcomes of one fan-out over the models it reaches
Oracles(m, w, method) ==
    {o \in [Invoked(m, w, method) ->
               {Raised("TypeError"), Raised("ValueError")}
                   \cup {Returned(b) : b \in ForecastBases}] :
        \A name \in DOMAIN o : o[name] \in CallOutcomes(name, m[name], method)}

----------------------------------------------------------------------------
(* Vectors (numpy arrays of length steps)                                  *)

\* np.zeros(steps)
Zeros(steps) == [i \in 1..steps |-> Num(0)]

VecAdd(u, v) == [i \in DOMAIN u |-> Add(u[i], v[i])]

VecScale(c, v) == [i \in DOMAIN v |-> Mul(c, v[i])]

VecDiv(v, c) == [i \in DOMAIN v |-> NpDiv(v[i], c)]

----------------------------------------------------------------------------
(* State                                                                   *)

VARIABLES
    models,               \* self.models: name -> adapter
    weights,              \* self.weights: name -> weight
    performance_metrics,  \* self.performance_metrics
    file,                 \* the bundle written by save, NoFile before
    last,                 \* the call the caller made last: operation,
                          \* arguments and outcome, until the caller takes it
    loaded,               \* ForecastService.models: name -> loaded object
    reader                \* a predict_volume call running in a second
                          \* thread: its position and local variables

vars == <<models, weights, performance_metrics, file, last, loaded, reader>>

\* what the methods of the combiner called by one caller do not touch
outside == <<loaded, reader>>

\* ForecastService before load_all_models: self.models = {}
NothingLoaded == EmptyMap

\* no predict_volume call is running in a second thread
NoReader == [pc |-> "none"]

NoFile == [exists |-> FALSE]

\* Python's None, the default of add_model's weight parameter
None == [none |-> TRUE]

\* no call is pending at the caller
Idle == [op |-> "idle", raised |-> FALSE]

\* EnsembleForecaster(models, weights): self.models = models or {},
\* self.weights = weights or {}, self.performance_metrics = {}
Init ==
    /\ models \in Registries
    /\ weights \in WeightMaps
    /\ performance_metrics = EmptyMap
    /\ file = NoFile
    /\ last = Idle
    /\ loaded = NothingLoaded
    /\ reader = NoReader

add_model(name, model, weight) ==
    /\ last.op = "idle"
    /\ models' = MapSet(models, name, model)
    /\ weights' = IF weight # None THEN MapSet(weights, name, weight)
                  ELSE weights
    /\ last' = [op |-> "add_model", raised |-> FALSE, name |-> name,
                weight |-> weight]
    /\ UNCHANGED <<performance_metrics, file>>
    /\ UNCHANGED outside

\* variant of SumOff: the abs() is forgotten, only an excess is rejected
SumOffNoAbs(w) == Gt(Sub(SumValues(w), Num(1)), Tol)

\* line 42: abs(sum(weights.values()) - 1.0) > 1e-6
SumOff(w) == Gt(Abs(Sub(SumValues(w), Num(1))), Tol)

\* lines 46-48: some name of w is not in self.models
UnknownName(w, m) == \E name \in DOMAIN w : name \notin DOMAIN m

set_weights(w) ==
    /\ last.op = "idle"
    /\ IF SumOff(w) \/ UnknownName(w, models)
       THEN /\ last' = [op |-> "set_weights", raised |-> TRUE, w |-> w]
            /\ UNCHANGED weights
       ELSE /\ weights' = w
            /\ last' = [op |-> "set_weights", raised |-> FALSE, w |-> w]
    /\ UNCHANGED <<models, performance_metrics, file>>
    /\ UNCHANGED outside

\* line 63: metrics[name][metric] raises KeyError
MetricMissing(metrics, metric) ==
    \E name \in DOMAIN metrics : metric \notin DOMAIN metrics[name]

\* line 63: scores
Scores(metrics, metric) == [name \in DOMAIN metrics |-> metrics[name][metric]]

\* line 66: 1 / score raises ZeroDivisionError on a Python zero; a
\* numpy.float64 zero gives inf
InverseRaises(scores) ==
    \E name \in DOMAIN scores : ~scores[name].np /\ scores[name].x = Num(0)

\* variant of InverseScores: the score itself instead of its inverse
InverseScoresDirect(scores) ==
    [name \in DOMAIN scores |-> [x |-> scores[name].x, np |-> scores[name].np]]

\* line 66: inverse_scores
InverseScores(scores) ==
    [name \in DOMAIN scores |->
        [x |-> NpDiv(Num(1), scores[name].x), np |-> scores[name].np]]

\* line 67: total_inverse; the sum is a numpy.float64 as soon as one term is
TotalInverse(inv) ==
    [x |-> SumOver([name \in DOMAIN inv |-> inv[name].x], DOMAIN inv),
     np |-> \E name \in DOMAIN inv : inv[name].np]

\* line 70: inv / total_inverse raises ZeroDivisionError when both are
\* Python floats and the total is 0
NormalizeRaises(inv) ==
    /\ DOMAIN inv # {}
    /\ ~TotalInverse(inv).np
    /\ TotalInverse(inv).x = Num(0)

\* line 70: the new weights
Normalized(inv) ==
    [name \in DOMAIN inv |-> NpDiv(inv[name].x, TotalInverse(inv).x)]

auto_weight_by_performance(metrics, metric) ==
    /\ last.op = "idle"
    /\ IF MetricMissing(metrics, metric)
       THEN /\ last' = [op |-> "auto_weight_by_performance", raised |-> TRUE,
                        err |-> "KeyError", metrics |-> metrics,
                        metric |-> metric]
            /\ UNCHANGED weights
       ELSE IF \/ InverseRaises(Scores(metrics, metric))
               \/ NormalizeRaises(InverseScores(Scores(metrics, metric)))
       THEN /\ last' = [op |-> "auto_weight_by_performance", raised |-> TRUE,
                        err |-> "ZeroDivisionError", metrics |-> metrics,
                        metric |-> metric]
            /\ UNCHANGED weights
       ELSE /\ weights' = Normalized(InverseScores(Scores(metrics, metric)))
            /\ last' = [op |-> "auto_weight_by_performance", raised |-> FALSE,
                        err |-> "", metrics |-> metrics, metric |-> metric]
    /\ UNCHANGED <<models, performance_metrics, file>>
    /\ UNCHANGED outside

\* lines 93-106: predictions, the forecasts of the invocations that returned
Predictions(o, steps) ==
    [name \in {k \in DOMAIN o : o[k].ok} |-> Forecast(o[name].base, steps)]

\* lines 109-115: ensemble_pred and total_weight after the loop over
\* predictions (S: the names still to visit)
RECURSIVE WeightedSum(_, _, _, _)
WeightedSum(predictions, w, S, steps) ==
    IF S = {} THEN [pred |-> Zeros(steps), total |-> Num(0)]
    ELSE LET name == CHOOSE k \in S : TRUE
             rest == WeightedSum(predictions, w, S \ {name}, steps)
             weight == IF name \in DOMAIN w THEN w[name] ELSE Num(0)
         IN  [pred |-> VecAdd(rest.pred, VecScale(weight, predictions[name])),
              total |-> Add(rest.total, weight)]

\* variant of Renormalize: the sum is divided by the weight used twice
RenormalizeTwice(acc) ==
    IF Gt(acc.total, Num(0)) /\ Gt(Abs(Sub(acc.total, Num(1))), Tol)
    THEN VecDiv(VecDiv(acc.pred, acc.total), acc.total)
    ELSE acc.pred

\* variant of Renormalize: no division by the weight used
RenormalizeNever(acc) == acc.pred

\* variant of Renormalize: the test total_weight > 0 is forgotten
RenormalizeUnguarded(acc) ==
    IF Gt(Abs(Sub(acc.total, Num(1))), Tol)
    THEN VecDiv(acc.pred, acc.total)
    ELSE acc.pred

\* lines 118-119: normalize if some models failed
Renormalize(acc) ==
    IF Gt(acc.total, Num(0)) /\ Gt(Abs(Sub(acc.total, Num(1))), Tol)
    THEN VecDiv(acc.pred, acc.total)
    ELSE acc.pred

\* variant of NoWeights: the check of line 87 is missing
NoWeightsUnchecked(w) == FALSE

\* line 87: if not self.weights
NoWeights(w) == w = EmptyMap

\* variant of predict_volume: the weight of a member that failed is removed
predict_volume_drops_failed(steps, o) ==
    /\ last.op = "idle"
    /\ o \in Oracles(models, weights, "predict")
    /\ weights' = [name \in {k \in DOMAIN weights :
                                k \notin DOMAIN o \/ o[k].ok} |-> weights[name]]
    /\ last' = [op |-> "predict_volume", raised |-> NoWeights(weights),
                steps |-> steps, calls |-> o,
                ret |-> Renormalize(
                          WeightedSum(Predictions(o, steps), weights,
                                      DOMAIN Predictions(o, steps), steps))]
    /\ UNCHANGED <<models, performance_metrics, file>>
    /\ UNCHANGED outside

predict_volume(steps, o) ==
    /\ last.op = "idle"
    /\ IF NoWeights(weights)
       THEN /\ o = EmptyMap
            /\ last' = [op |-> "predict_volume", raised |-> TRUE,
                        steps |-> steps, calls |-> EmptyMap]
       ELSE /\ o \in Oracles(models, weights, "predict")
            /\ last' = [op |-> "predict_volume", raised |-> FALSE,
                        steps |-> steps, calls |-> o,
                        ret |-> Renormalize(
                                  WeightedSum(Predictions(o, steps), weights,
                                              DOMAIN Predictions(o, steps),
                                              steps))]
    /\ UNCHANGED <<models, weights, performance_metrics, file>>
    /\ UNCHANGED outside

\* lines 141-158: all_forecasts, all_lowers, all_uppers as name -> weighted
\* result of the invocations that returned
WeightedIntervals(o, w, steps) ==
    [name \in {k \in DOMAIN o : o[k].ok} |->
        [forecast |-> VecScale(w[name], Intervals(o[name].base, steps).forecast),
         ci_lower |-> VecScale(w[name], Intervals(o[name].base, steps).ci_lower),
         ci_upper |-> VecScale(w[name], Intervals(o[name].base, steps).ci_upper)]]

\* np.sum(arrays, axis=0) over a non-empty list of arrays of length steps
RECURSIVE NpSum(_, _, _)
NpSum(arrays, S, steps) ==
    IF S = {} THEN Zeros(steps)
    ELSE LET name == CHOOSE k \in S : TRUE
         IN  VecAdd(NpSum(arrays, S \ {name}, steps), arrays[name])

\* variant of IntervalSums: the sums are divided by the weight used, as
\* predict_volume does
IntervalSumsRenormalized(all, steps) ==
    LET used == SumOver([k \in DOMAIN all |-> weights[k]], DOMAIN all)
    IN  [forecast |-> VecDiv(NpSum([k \in DOMAIN all |-> all[k].forecast],
                                   DOMAIN all, steps), used),
         ci_lower |-> VecDiv(NpSum([k \in DOMAIN all |-> all[k].ci_lower],
                                   DOMAIN all, steps), used),
         ci_upper |-> VecDiv(NpSum([k \in DOMAIN all |-> all[k].ci_upper],
                                   DOMAIN all, steps), used)]

\* lines 163-167: the returned dict
IntervalSums(all, steps) ==
    [forecast |-> NpSum([k \in DOMAIN all |-> all[k].forecast], DOMAIN all, steps),
     ci_lower |-> NpSum([k \in DOMAIN all |-> all[k].ci_lower], DOMAIN all, steps),
     ci_upper |-> NpSum([k \in DOMAIN all |-> all[k].ci_upper], DOMAIN all, steps)]

\* variant of predict_with_intervals: with no result it returns zeros, as
\* predict_volume does, instead of raising
predict_with_intervals_zero_fallback(steps, o) ==
    /\ last.op = "idle"
    /\ o \in Oracles(models, weights, "predict_with_intervals")
    /\ last' = [op |-> "predict_with_intervals", raised |-> FALSE,
                steps |-> steps, calls |-> o,
                ret |-> IntervalSums(
                          WeightedIntervals(o, weights, steps), steps)]
    /\ UNCHANGED <<models, weights, performance_metrics, file>>
    /\ UNCHANGED outside

predict_with_intervals(steps, o) ==
    /\ last.op = "idle"
    /\ o \in Oracles(models, weights, "predict_with_intervals")
    /\ IF DOMAIN WeightedIntervals(o, weights, steps) = {}
       THEN last' = [op |-> "predict_with_intervals", raised |-> TRUE,
                     steps |-> steps, calls |-> o]
       ELSE last' = [op |-> "predict_with_intervals", raised |-> FALSE,
                     steps |-> steps, calls |-> o,
                     ret |-> IntervalSums(
                               WeightedIntervals(o, weights, steps), steps)]
    /\ UNCHANGED <<models, weights, performance_metrics, file>>
    /\ UNCHANGED outside

\* every outcome table a fan-out can meet in some state
AllOracles ==
    UNION {Oracles(m, [name \in ModelNames |-> Num(1)], method) :
              m \in Registries, method \in {"predict", "predict_with_intervals"}}

\* lines 212-217: joblib.dump of {weights, performance_metrics}
save ==
    /\ last.op = "idle"
    /\ file' = [exists |-> TRUE, weights |-> weights,
                performance_metrics |-> performance_metrics]
    /\ last' = [op |-> "save", raised |-> FALSE]
    /\ UNCHANGED <<models, weights, performance_metrics>>
    /\ UNCHANGED outside

\* variant of load: the performance record of the bundle is not restored
load_without_record(m) ==
    /\ last.op = "idle"
    /\ IF file.exists
       THEN /\ models' = m
            /\ weights' = file.weights
            /\ performance_metrics' = EmptyMap
            /\ last' = [op |-> "load", raised |-> FALSE]
       ELSE /\ last' = [op |-> "load", raised |-> TRUE]
            /\ UNCHANGED <<models, weights, performance_metrics>>
    /\ UNCHANGED file
    /\ UNCHANGED outside

\* lines 220-226: cls(models=models, weights=data['weights']), then the
\* performance record of the bundle; joblib.load raises without a file
load(m) ==
    /\ last.op = "idle"
    /\ IF file.exists
       THEN /\ models' = m
            /\ weights' = file.weights
            /\ performance_metrics' = file.performance_metrics
            /\ last' = [op |-> "load", raised |-> FALSE]
       ELSE /\ last' = [op |-> "load", raised |-> TRUE]
            /\ UNCHANGED <<models, weights, performance_metrics>>
    /\ UNCHANGED file
    /\ UNCHANGED outside

\* the caller takes the outcome of its call; the next call can follow
Return ==
    /\ last.op # "idle"
    /\ last' = Idle
    /\ UNCHANGED <<models, weights, performance_metrics, file>>
    /\ UNCHANGED outside

Next ==
    \/ \E name \in ModelNames, model \in AdapterClasses,
          weight \in WeightVals \cup {None} : add_model(name, model, weight)
    \/ \E w \in WeightMaps : set_weights(w)
    \/ \E metrics \in PerformanceRecords, metric \in MetricArgs :
          auto_weight_by_performance(metrics, metric)
    \/ \E steps \in 1..MaxSteps, o \in AllOracles : predict_volume(steps, o)
    \/ \E steps \in 1..MaxSteps, o \in AllOracles :
          predict_with_intervals(steps, o)
    \/ Return

Spec == Init /\ [][Next]_vars

\* the weights given to the ensembles that are saved and loaded
PersistWeightVals == {Rat(1, 2), Num(1), Rat(3, 2)}

\* EnsembleForecaster(): no models, no weights
InitDefault ==
    /\ models = EmptyMap
    /\ weights = EmptyMap
    /\ performance_metrics = EmptyMap
    /\ file = NoFile
    /\ last = Idle
    /\ loaded = NothingLoaded
    /\ reader = NoReader

\* the combiner with its persistence: built empty, filled by add_model and
\* set_weights, saved and loaded
NextPersist ==
    \/ \E name \in ModelNames, model \in AdapterClasses,
          weight \in PersistWeightVals \cup {None} :
              add_model(name, model, weight)
    \/ \E w \in PartialMaps(ModelNames, PersistWeightVals) : set_weights(w)
    \/ \E steps \in 1..MaxSteps, o \in AllOracles : predict_volume(steps, o)
    \/ save
    \/ \E m \in Registries : load(m)
    \/ Return

SpecPersist == InitDefault /\ [][NextPersist]_vars

----------------------------------------------------------------------------
(* evaluate_models                                                         *)

\* first value of the test series handed to evaluate_models
TestBases == {0, 10, 20}

\* test_data: series of the adapters' shape, among them series with a zero
\* true value, and series holding NaN
TestData ==
    {[i \in 1..steps |-> Num(tb + 10 * (i - 1))] :
        tb \in TestBases, steps \in 1..MaxSteps}
      \cup {[i \in 1..steps |-> NaN] : steps \in 1..MaxSteps}

\* np.sum over an array
RECURSIVE ArraySum(_, _)
ArraySum(v, n) == IF n = 0 THEN Num(0) ELSE Add(ArraySum(v, n - 1), v[n])

\* np.mean over a non-empty array
Mean(v) == NpDiv(ArraySum(v, Len(v)), Num(Len(v)))

\* np.sqrt of a float that is, when finite, the square of a rational
Sqrt(x) ==
    IF ~IsFinite(x) THEN x
    ELSE Rat(CHOOSE r \in 0..x.n : r * r = x.n,
             CHOOSE r \in 1..x.d : r * r = x.d)

\* sklearn's input validation: mean_squared_error raises ValueError on a
\* NaN or infinite input
MetricsRaise(y_true) == \E i \in DOMAIN y_true : ~IsFinite(y_true[i])

mean_squared_error(y_true, pred) ==
    Mean([i \in DOMAIN y_true |->
             Mul(Sub(y_true[i], pred[i]), Sub(y_true[i], pred[i]))])

mean_absolute_error(y_true, pred) ==
    Mean([i \in DOMAIN y_true |-> Abs(Sub(y_true[i], pred[i]))])

\* line 197: np.mean(np.abs((y_true - pred) / y_true)) * 100
Mape(y_true, pred) ==
    Mul(Mean([i \in DOMAIN y_true |->
                 Abs(NpDiv(Sub(y_true[i], pred[i]), y_true[i]))]),
        Num(100))

\* lines 194-198: the entry of one model, three numpy floats
ModelMetrics(y_true, pred) ==
    [rmse |-> [x |-> Sqrt(mean_squared_error(y_true, pred)), np |-> TRUE],
     mae |-> [x |-> mean_absolute_error(y_true, pred), np |-> TRUE],
     mape |-> [x |-> Mape(y_true, pred), np |-> TRUE]]

\* the outcomes of the loop of line 184 over self.models.items(): every
\* registered model is called, model.predict(train_data, steps=steps) under
\* the name 'lstm' and model.predict(steps=steps) otherwise
EvalOracles(m) ==
    {o \in [DOMAIN m -> {Raised("TypeError"), Raised("ValueError")}
                           \cup {Returned(b) : b \in ForecastBases}] :
        \A name \in DOMAIN o : o[name] \in CallOutcomes(name, m[name], "predict")}

\* metrics after the loop: an entry for each model whose forecast and
\* metrics were computed; an exception of either skips the model
Evaluated(o, test_data) ==
    [name \in {k \in DOMAIN o : o[k].ok /\ ~MetricsRaise(test_data)} |->
        ModelMetrics(test_data, Forecast(o[name].base, Len(test_data)))]

\* variant of evaluate_models: the record is returned but not stored
evaluate_models_no_store(test_data, o) ==
    /\ last.op = "idle"
    /\ o \in EvalOracles(models)
    /\ last' = [op |-> "evaluate_models", raised |-> FALSE,
                test_data |-> test_data, calls |-> o,
                ret |-> Evaluated(o, test_data)]
    /\ UNCHANGED <<models, weights, performance_metrics, file>>
    /\ UNCHANGED outside

\* lines 169-210
evaluate_models(test_data, o) ==
    /\ last.op = "idle"
    /\ o \in EvalOracles(models)
    /\ performance_metrics' = Evaluated(o, test_data)
    /\ last' = [op |-> "evaluate_models", raised |-> FALSE,
                test_data |-> test_data, calls |-> o,
                ret |-> Evaluated(o, test_data)]
    /\ UNCHANGED <<models, weights, file>>
    /\ UNCHANGED outside

\* every outcome table an evaluation can meet in some state
AllEvalOracles == UNION {EvalOracles(m) : m \in Registries}

\* the weights of the ensembles that are evaluated
EvalWeightVals == {Rat(1, 2)}

\* EnsembleForecaster(models, weights) before an evaluation
InitEval ==
    /\ models \in Registries
    /\ weights \in PartialMaps(ModelNames, EvalWeightVals)
    /\ performance_metrics = EmptyMap
    /\ file = NoFile
    /\ last = Idle
    /\ loaded = NothingLoaded
    /\ reader = NoReader

\* the combiner evaluated and re-weighted by what the evaluation recorded,
\* as the module's __main__ does
NextEval ==
    \/ \E test_data \in TestData, o \in AllEvalOracles :
          evaluate_models(test_data, o)
    \/ \E metric \in MetricArgs :
          auto_weight_by_performance(performance_metrics, metric)
    \/ Return

SpecEval == InitEval /\ [][NextEval]_vars

\* the test series of the ensembles that are evaluated, saved and loaded
RoundTripData ==
    {[i \in 1..MaxSteps |-> Num(10 * i)], [i \in 1..MaxSteps |-> NaN]}

\* the combiner evaluated, saved to a file and loaded from it, as the
\* module's __main__ leaves it for the service
NextRoundTrip ==
    \/ /\ last.op = "idle"
       /\ \E test_data \in RoundTripData, o \in AllEvalOracles :
             evaluate_models(test_data, o)
    \/ /\ last.op = "idle"
       /\ \E steps \in 1..MaxSteps, o \in AllOracles : predict_volume(steps, o)
    \/ save
    \/ \E m \in Registries : load(m)
    \/ Return

SpecRoundTrip == InitEval /\ [][NextRoundTrip]_vars

\* the adapters under the names the module's __main__ and the service give
\* them
ConventionalNames ==
    [sarima |-> "SARIMAVolumeModel", prophet |-> "ProphetVolumeModel",
     lstm |-> "LSTMVolumeModel"]

\* the registries of ensembles built from these adapters
ConventionalRegistries ==
    {[name \in S |-> ConventionalNames[name]] :
        S \in (SUBSET DOMAIN ConventionalNames) \ {{}}}

\* every outcome table a fan-out or an evaluation over such a registry can
\* meet
ConventionalOracles ==
    UNION {Oracles(m, [name \in DOMAIN m |-> Num(1)], method)
               \cup EvalOracles(m) :
              m \in ConventionalRegistries,
              method \in {"predict", "predict_with_intervals"}}

\* EnsembleForecaster(models, weights) with fitted adapters under their
\* conventional names, weighted equally
InitAdapters ==
    /\ models \in ConventionalRegistries
    /\ weights = [name \in DOMAIN models |-> Rat(1, Cardinality(DOMAIN models))]
    /\ performance_metrics = EmptyMap
    /\ file = NoFile
    /\ last = Idle
    /\ loaded = NothingLoaded
    /\ reader = NoReader

\* the three fan-outs of the combiner over these ensembles
NextAdapters ==
    \/ /\ last.op = "idle"
       /\ \E steps \in 1..MaxSteps, o \in ConventionalOracles :
             predict_volume(steps, o)
    \/ /\ last.op = "idle"
       /\ \E steps \in 1..MaxSteps, o \in ConventionalOracles :
             predict_with_intervals(steps, o)
    \/ /\ last.op = "idle"
       /\ \E test_data \in RoundTripData, o \in ConventionalOracles :
             evaluate_models(test_data, o)
    \/ Return

SpecAdapters == InitAdapters /\ [][NextAdapters]_vars

----------------------------------------------------------------------------
(* Exogenous events and the scenario simulator                             *)

\* largest number of periods of a date range
MaxPeriods == 4

\* largest number of custom shocks of a scenario
MaxShocks == 2

\* the values of ExogenousEventType
EventTypes ==
    {"covid_19", "wildfire", "extreme_weather", "economic_recession",
     "major_event", "regulatory_change"}

\* pd.Timestamp(year, month, day=1); pd.to_datetime("YYYY-MM") is the first
\* day of that month too
Date(y, m) == [year |-> y, month |-> m]

\* the months from year 0 to a date: the order of first-of-month timestamps
Months(d) == d.year * 12 + (d.month - 1)

\* DatetimeIndex.quarter
Quarter(d) == ((d.month - 1) \div 3) + 1

Period(start, end, severity) ==
    [start |-> start, end |-> end, severity |-> severity]

NoPeriods == << >>

NoPattern == EmptyMap

\* the catalog built by _define_events: impact_multiplier, the
\* historical_periods in their listed order, the seasonal_pattern by quarter
event_definitions ==
    [covid_19 |->
        [impact_multiplier |-> Rat(0 - 6, 10),
         historical_periods |->
            <<Period(Date(2020, 3), Date(2021, 6), Rat(8, 10)),
              Period(Date(2021, 7), Date(2022, 12), Rat(4, 10))>>,
         seasonal_pattern |-> NoPattern],
     wildfire |->
        [impact_multiplier |-> Rat(0 - 3, 10),
         historical_periods |->
            <<Period(Date(2020, 8), Date(2020, 10), Rat(6, 10)),
              Period(Date(2023, 7), Date(2023, 8), Rat(4, 10))>>,
         seasonal_pattern |-> NoPattern],
     extreme_weather |->
        [impact_multiplier |-> Rat(0 - 15, 100),
         historical_periods |-> NoPeriods,
         seasonal_pattern |->
            <<Rat(3, 10), Rat(2, 10), Rat(5, 10), Rat(2, 10)>>],
     economic_recession |->
        [impact_multiplier |-> Rat(0 - 4, 10),
         historical_periods |->
            <<Period(Date(2008, 1), Date(2009, 12), Rat(9, 10)),
              Period(Date(2020, 3), Date(2020, 6), Rat(7, 10))>>,
         seasonal_pattern |-> NoPattern],
     major_event |->
        [impact_multiplier |-> Rat(5, 10),
         historical_periods |->
            <<Period(Date(2028, 7), Date(2028, 8), Num(1))>>,
         seasonal_pattern |-> NoPattern],
     regulatory_change |->
        [impact_multiplier |-> Rat(0 - 25, 100),
         historical_periods |->
            <<Period(Date(2019, 1), Date(2019, 12), Rat(6, 10))>>,
         seasonal_pattern |-> NoPattern]]

\* variant of Mask: the end of the interval is not tested
MaskOpenEnded(date, period) == Months(date) >= Months(period.start)

\* variant of Mask: the end of the interval is excluded
MaskEndExcluded(date, period) ==
    Months(date) >= Months(period.start) /\ Months(date) < Months(period.end)

\* line 118: mask = (df.index >= start) & (df.index <= end)
Mask(date, period) ==
    Months(date) >= Months(period.start) /\ Months(date) <= Months(period.end)

\* variant of HistoricalValue: the values of the intervals that cover a date
\* are added
RECURSIVE HistoricalValueSummed(_, _, _)
HistoricalValueSummed(event_def, n, date) ==
    IF n = 0 THEN Num(0)
    ELSE Add(HistoricalValueSummed(event_def, n - 1, date),
             IF Mask(date, event_def.historical_periods[n])
             THEN Mul(event_def.historical_periods[n].severity,
                      event_def.impact_multiplier)
             ELSE Num(0))

\* lines 108-119: the column's value at a date after the first n intervals
\* were applied in their order, each overwriting the dates it covers
RECURSIVE HistoricalValue(_, _, _)
HistoricalValue(event_def, n, date) ==
    IF n = 0 THEN Num(0)
    ELSE IF Mask(date, event_def.historical_periods[n])
         THEN Mul(event_def.historical_periods[n].severity,
                  event_def.impact_multiplier)
         ELSE HistoricalValue(event_def, n - 1, date)

\* lines 108-128: the seasonal pattern is applied after the intervals
FeatureValue(event_def, date) ==
    IF Quarter(date) \in DOMAIN event_def.seasonal_pattern
    THEN Mul(event_def.seasonal_pattern[Quarter(date)],
             event_def.impact_multiplier)
    ELSE HistoricalValue(event_def, Len(event_def.historical_periods), date)

\* lines 101-130: the frame, one column exog_<event> per enabled event
ExogenousFeatures(definitions, date_range, enabled_events) ==
    [e \in enabled_events |->
        [i \in DOMAIN date_range |-> FeatureValue(definitions[e], date_range[i])]]

\* variant of RowSum: the events' impacts are compounded, (1 + a)(1 + b) - 1
RECURSIVE RowCompounded(_, _, _)
RowCompounded(exog_df, S, i) ==
    IF S = {} THEN Num(0)
    ELSE LET e == CHOOSE k \in S : TRUE
         IN  Sub(Mul(Add(Num(1), RowCompounded(exog_df, S \ {e}, i)),
                     Add(Num(1), exog_df[e][i])),
                 Num(1))

\* line 155: exog_df.sum(axis=1).values at row i (S: the columns still to
\* add)
RECURSIVE RowSum(_, _, _)
RowSum(exog_df, S, i) ==
    IF S = {} THEN Num(0)
    ELSE LET e == CHOOSE k \in S : TRUE
         IN  Add(RowSum(exog_df, S \ {e}, i), exog_df[e][i])

\* lines 158-164: total_impact += impact for each of the first k shocks, at
\* one element of total_impact; the shock's period is read and not used
RECURSIVE WithShocks(_, _, _)
WithShocks(impact_i, custom_shocks, k) ==
    IF k = 0 THEN impact_i
    ELSE Add(WithShocks(impact_i, custom_shocks, k - 1),
             custom_shocks[k].impact)

\* the float c * 1.03 ** e of the service's projection, kept in this form:
\* its digits exceed the integers of the model
Pow103(c, e) == [c |-> c, e |-> e]

\* x * r for a float x in either form
Times(x, r) ==
    IF "e" \in DOMAIN x THEN Pow103(Mul(x.c, r), x.e) ELSE Mul(x, r)

\* lines 152-186: the result of simulate_scenario
Simulated(base_forecast, date_range, scenario) ==
    LET exog_df == ExogenousFeatures(event_definitions, date_range,
                                     scenario.events)
        total_impact ==
            [i \in DOMAIN date_range |->
                WithShocks(RowSum(exog_df, DOMAIN exog_df, i),
                           scenario.custom_shocks,
                           Len(scenario.custom_shocks))]
    IN  [base_forecast |-> base_forecast,
         adjusted_forecast |->
            [i \in DOMAIN base_forecast |->
                Times(base_forecast[i], Add(Num(1), total_impact[i]))],
         total_impact |-> total_impact,
         total_impact_pct |-> VecScale(Num(100), total_impact),
         exogenous_features |-> exog_df]

\* the date ranges: first-of-month timestamps, as the API builds them
\* (scenarios.py line 119), `stride` months apart
StartYears == {2019, 2020, 2021, 2024, 2028}

StartMonths == {1, 4, 6, 7, 10}

Strides == {1, 3}

DateRangeFrom(y, m, stride, n) ==
    [i \in 1..n |->
        Date(y + ((m - 1 + stride * (i - 1)) \div 12),
             ((m - 1 + stride * (i - 1)) % 12) + 1)]

DateRanges ==
    {DateRangeFrom(y, m, stride, n) :
        y \in StartYears, m \in StartMonths, stride \in Strides,
        n \in 1..MaxPeriods}

\* the date ranges of simulations: a quarter apart, as the API builds them
QuarterlyRanges ==
    {DateRangeFrom(y, m, 3, n) :
        y \in StartYears, m \in StartMonths, n \in 1..MaxPeriods}

\* a shock's period "YYYY-Qq" and impact
Shock(y, q, impact) == [period |-> [year |-> y, quarter |-> q], impact |-> impact]

CustomShocks ==
    {Shock(2024, 3, Rat(0 - 2, 10)), Shock(2028, 3, Rat(8, 10))}

ShockLists == UNION {[1..k -> CustomShocks] : k \in 0..MaxShocks}

\* the event lists of the scenarios simulated: none, one event, the lists
\* of the predefined templates, every event
ScenarioEvents ==
    {{}} \cup {{e} : e \in EventTypes}
         \cup {{"economic_recession", "wildfire", "extreme_weather"},
               {"covid_19", "economic_recession"}, EventTypes}

\* base forecasts: b, 2b, 3b, ...
BaseLevels == {100, 44594}

BaseForecasts(n) == {[i \in 1..n |-> Num(b * i)] : b \in BaseLevels}

\* lines 89-130
create_exogenous_features(date_range, enabled_events) ==
    /\ last.op = "idle"
    /\ last' = [op |-> "create_exogenous_features", raised |-> FALSE,
                date_range |-> date_range, enabled_events |-> enabled_events,
                ret |-> ExogenousFeatures(event_definitions, date_range,
                                          enabled_events)]
    /\ UNCHANGED <<models, weights, performance_metrics, file>>
    /\ UNCHANGED outside

\* intervals given to an event of a catalog: two that overlap from 2024-06
\* to 2024-12, and one apart from them
CatalogPeriods ==
    {Period(Date(2024, 1), Date(2024, 12), Rat(1, 2)),
     Period(Date(2024, 6), Date(2025, 3), Num(1)),
     Period(Date(2021, 1), Date(2021, 3), Rat(1, 4))}

\* self.event_definitions of a manager: an event with up to two intervals
\* in either order and a seasonal pattern by quarter, beside the events of
\* _define_events
Catalogs ==
    {[e \in EventTypes |->
         IF e = "wildfire"
         THEN [impact_multiplier |-> mult, historical_periods |-> periods,
               seasonal_pattern |-> pattern]
         ELSE event_definitions[e]] :
        mult \in {Rat(0 - 3, 10), Num(1)},
        periods \in UNION {[1..k -> CatalogPeriods] : k \in 0..2},
        pattern \in {NoPattern, (3 :> Rat(3, 2)),
                     (1 :> Rat(1, 5)) @@ (3 :> Rat(3, 2))}}

\* lines 89-130, on a manager whose event_definitions is definitions
create_exogenous_features_with(definitions, date_range, enabled_events) ==
    /\ last.op = "idle"
    /\ last' = [op |-> "create_exogenous_features_with", raised |-> FALSE,
                definitions |-> definitions, date_range |-> date_range,
                enabled_events |-> enabled_events,
                ret |-> ExogenousFeatures(definitions, date_range,
                                          enabled_events)]
    /\ UNCHANGED <<models, weights, performance_metrics, file>>
    /\ UNCHANGED outside

\* create_exogenous_features on managers with these catalogs
NextCatalog ==
    \/ /\ last.op = "idle"
       /\ \E definitions \in Catalogs, date_range \in DateRanges,
             enabled_events \in {{"wildfire"},
                                 {"wildfire", "extreme_weather"}} :
                 create_exogenous_features_with(definitions, date_range,
                                                enabled_events)
    \/ Return

SpecCatalog == InitDefault /\ [][NextCatalog]_vars

\* lines 132-186
simulate_scenario(base_forecast, date_range, scenario) ==
    /\ last.op = "idle"
    /\ Len(base_forecast) = Len(date_range)
    /\ last' = [op |-> "simulate_scenario", raised |-> FALSE,
                date_range |-> date_range, scenario |-> scenario,
                ret |-> Simulated(base_forecast, date_range, scenario)]
    /\ UNCHANGED <<models, weights, performance_metrics, file>>
    /\ UNCHANGED outside

\* the manager built by get_exog_manager, no ensemble in use
InitScenario == InitDefault

\* the calls a caller makes on the manager, one at a time
NextScenario ==
    \/ /\ last.op = "idle"
       /\ \E date_range \in DateRanges, enabled_events \in SUBSET EventTypes :
             create_exogenous_features(date_range, enabled_events)
    \/ /\ last.op = "idle"
       /\ \E date_range \in QuarterlyRanges, events \in ScenarioEvents,
             custom_shocks \in ShockLists :
                 \E base_forecast \in BaseForecasts(Len(date_range)) :
                     simulate_scenario(base_forecast, date_range,
                                       [events |-> events,
                                        custom_shocks |-> custom_shocks])
    \/ Return

SpecScenario == InitScenario /\ [][NextScenario]_vars

----------------------------------------------------------------------------
(* Forecast service and the /simulate endpoint                             *)

\* _simple_projection: current = 44594
current == 44594

\* the largest i for which the double 1.03 ** i exists: Python raises
\* OverflowError for (1 + growth_rate) ** i beyond it
PowLimit == 24012

\* the largest horizon the request schemas accept
MaxHorizon == 12

\* what joblib.load gives for each file of load_all_models that exists: the
\* adapters, and for ensemble_volume.pkl the dict written by
\* EnsembleForecaster.save
LoadedKinds ==
    [sarima |-> "SARIMAVolumeModel", prophet |-> "ProphetVolumeModel",
     lstm |-> "LSTMVolumeModel", xgboost_price |-> "XGBoostForecastModel",
     ensemble |-> "dict"]

\* self.models after load_all_models, by the files that exist and load:
\* none, one of them, all of them
ServiceLoads ==
    {[name \in S |-> LoadedKinds[name]] :
        S \in {{}, DOMAIN LoadedKinds} \cup {{n} : n \in DOMAIN LoadedKinds}}

\* the model names requested
RequestedModels == {"ensemble", "sarima", "prophet", "lstm", "xgboost_price", "gru"}

\* the calls of forecast_volume, <<horizon, model, include_intervals>>:
\* every combination for horizons the schemas accept, and the default call
\* at both sides of the limit of 1.03 ** i
ForecastCalls ==
    ({1, 2, 3, MaxHorizon} \X RequestedModels \X BOOLEAN)
        \cup ({PowLimit, PowLimit + 1} \X {"ensemble"} \X {TRUE})

\* variant of SimpleProjection: range(horizon) instead of
\* range(1, horizon + 1)
SimpleProjectionFromZero(horizon) ==
    [forecast |-> [i \in 1..horizon |-> Pow103(Num(current), i - 1)],
     ci_lower |->
        [i \in 1..horizon |-> Pow103(Mul(Num(current), Rat(95, 100)), i - 1)],
     ci_upper |->
        [i \in 1..horizon |-> Pow103(Mul(Num(current), Rat(105, 100)), i - 1)]]

\* lines 169-181: current * 1.03 ** i for i in range(1, horizon + 1), and
\* its 0.95 and 1.05 multiples
SimpleProjection(horizon) ==
    [forecast |-> [i \in 1..horizon |-> Pow103(Num(current), i)],
     ci_lower |->
        [i \in 1..horizon |-> Pow103(Mul(Num(current), Rat(95, 100)), i)],
     ci_upper |->
        [i \in 1..horizon |-> Pow103(Mul(Num(current), Rat(105, 100)), i)]]

\* line 175: 1.03 ** i raises OverflowError for the last i of the range
ProjectionRaises(horizon) == horizon > PowLimit

\* hasattr on a loaded object: the dict has neither method
ServiceHasAttr(kind, method) == kind # "dict" /\ HasAttr(kind, method)

\* lines 65 and 77: which method forecast_volume calls
ServiceMethod(kind, include_intervals) ==
    IF include_intervals /\ ServiceHasAttr(kind, "predict_with_intervals")
    THEN "predict_with_intervals" ELSE "predict"

\* lines 66-69 and 78-81: (historical_data, steps=horizon) for 'lstm', else
\* (steps=horizon)
ServiceCallStyle(model) == IF model = "lstm" THEN "series_steps" ELSE "steps"

\* no model object was called
NoCall == [ok |-> FALSE, err |-> "", base |-> 0]

\* what the call of lines 65-81 can do: AttributeError on the dict,
\* TypeError when the arguments do not bind, else the adapter raises or
\* returns
ServiceOutcomes(ld, model, include_intervals) ==
    IF model \notin DOMAIN ld THEN {NoCall}
    ELSE IF ~ServiceHasAttr(ld[model], "predict")
         THEN {Raised("AttributeError")}
    ELSE IF ~Accepts(ld[model], ServiceMethod(ld[model], include_intervals),
                     ServiceCallStyle(model))
         THEN {Raised("TypeError")}
    ELSE {Raised("ValueError")} \cup {Returned(b) : b \in ForecastBases}

AllServiceOutcomes ==
    {NoCall, Raised("AttributeError"), Raised("TypeError"),
     Raised("ValueError")} \cup {Returned(b) : b \in ForecastBases}

\* lines 54-86: the outcome of forecast_volume, o the outcome of the model
\* call
ForecastVolume(ld, horizon, model, include_intervals, o) ==
    IF o.ok
    THEN [raised |-> FALSE, err |-> "", fallback |-> FALSE,
          ret |-> IF ServiceMethod(ld[model], include_intervals)
                        = "predict_with_intervals"
                  THEN Intervals(o.base, horizon)
                  ELSE [forecast |-> Forecast(o.base, horizon)]]
    ELSE IF ProjectionRaises(horizon)
         THEN [raised |-> TRUE, err |-> "OverflowError", fallback |-> TRUE,
               ret |-> << >>]
    ELSE [raised |-> FALSE, err |-> "", fallback |-> TRUE,
          ret |-> SimpleProjection(horizon)]

\* lines 42-86
forecast_volume(horizon, model, include_intervals, o) ==
    /\ last.op = "idle"
    /\ o \in ServiceOutcomes(loaded, model, include_intervals)
    /\ last' = [op |-> "forecast_volume", horizon |-> horizon,
                model |-> model, include_intervals |-> include_intervals,
                call |-> o]
               @@ ForecastVolume(loaded, horizon, model, include_intervals, o)
    /\ UNCHANGED <<models, weights, performance_metrics, file>>
    /\ UNCHANGED outside

\* a template of get_available_scenarios
Template(id, events, custom_shocks) ==
    [id |-> id, events |-> events, custom_shocks |-> custom_shocks]

\* variant of get_available_scenarios: the template of the games is listed
\* under the id of the wildfire template
get_available_scenarios_shared_id ==
    <<Template("optimistic", {"major_event"}, << >>),
      Template("baseline", {}, << >>),
      Template("pessimistic",
               {"economic_recession", "wildfire", "extreme_weather"}, << >>),
      Template("wildfire_season", {"wildfire"},
               <<Shock(2024, 3, Rat(0 - 35, 100)),
                 Shock(2024, 4, Rat(0 - 20, 100))>>),
      Template("wildfire_season", {"major_event"},
               <<Shock(2028, 2, Rat(6, 10)), Shock(2028, 3, Rat(8, 10))>>),
      Template("regulatory_crackdown", {"regulatory_change"},
               <<Shock(2024, 1, Rat(0 - 30, 100))>>)>>

\* exogenous.py lines 188-245
get_available_scenarios ==
    <<Template("optimistic", {"major_event"}, << >>),
      Template("baseline", {}, << >>),
      Template("pessimistic",
               {"economic_recession", "wildfire", "extreme_weather"}, << >>),
      Template("wildfire_season", {"wildfire"},
               <<Shock(2024, 3, Rat(0 - 35, 100)),
                 Shock(2024, 4, Rat(0 - 20, 100))>>),
      Template("olympics_2028", {"major_event"},
               <<Shock(2028, 2, Rat(6, 10)), Shock(2028, 3, Rat(8, 10))>>),
      Template("regulatory_crackdown", {"regulatory_change"},
               <<Shock(2024, 1, Rat(0 - 30, 100))>>)>>

\* lines 107-108: the label f"2024Q{i}" for i <= 4, else f"2025Q{i-4}"
QuarterLabel(i) ==
    IF i <= 4 THEN [year |-> 2024, quarter |-> i]
    ELSE [year |-> 2025, quarter |-> i - 4]

\* lines 113-117: year, and the first month of the quarter
LabelMonth(q) == (q.quarter - 1) * 3 + 1

\* line 119: pd.Timestamp raises ValueError for a month beyond 12
TimestampRaises(q) == LabelMonth(q) > 12

\* a response or error of the endpoint
Response(status, detail, periods, body) ==
    [status |-> status, detail |-> detail, periods |-> periods, body |-> body]

\* the scenario_id and events of the requests
ScenarioIds ==
    {"", "optimistic", "baseline", "wildfire_season", "olympics_2028", "boom"}

RequestEvents ==
    {<< >>, <<"wildfire">>, <<"covid_19", "extreme_weather">>,
     <<"economic_recession", "major_event", "regulatory_change">>,
     <<"earthquake">>, <<"wildfire", "earthquake">>}

RequestShocks == {<< >>, <<Shock(2024, 3, Rat(0 - 2, 10))>>}

RequestHorizons == {1, 4, 8, 9, MaxHorizon}

RequestModels == {"ensemble", "sarima", "gru"}

Range(s) == {s[i] : i \in DOMAIN s}

\* scenarios.py lines 99-170; inner is what the body of the try does, the
\* except of lines 169-170 turns every exception of it, the HTTPException
\* of lines 132 and 143 too, into HTTPException(500)
Simulate(ld, request, o) ==
    LET base == ForecastVolume(ld, request.horizon, request.base_model,
                               FALSE, o)
        quarters == [i \in 1..request.horizon |-> QuarterLabel(i)]
        date_range == [i \in 1..request.horizon |->
                          Date(quarters[i].year, LabelMonth(quarters[i]))]
        found == {k \in DOMAIN get_available_scenarios :
                     get_available_scenarios[k].id = request.scenario_id}
        scenario ==
            IF request.scenario_id # ""
            THEN LET t == get_available_scenarios[CHOOSE k \in found : TRUE]
                 IN  [events |-> t.events, custom_shocks |-> t.custom_shocks]
            ELSE [events |-> Range(request.events),
                  custom_shocks |-> request.custom_shocks]
        inner ==
            IF base.raised THEN Response(0, base.err, << >>, << >>)
            ELSE IF \E i \in 1..request.horizon : TimestampRaises(quarters[i])
                 THEN Response(0, "ValueError", << >>, << >>)
            ELSE IF request.scenario_id # "" /\ found = {}
                 THEN Response(404, "not found", << >>, << >>)
            ELSE IF /\ request.scenario_id = ""
                    /\ ~(Range(request.events) \subseteq EventTypes)
                 THEN Response(400, "Invalid event type", << >>, << >>)
            ELSE Response(200, "", quarters,
                          Simulated(base.ret.forecast, date_range, scenario))
    IN  IF inner.status = 200 THEN inner
        ELSE Response(500, inner.detail, << >>, << >>)

\* POST /simulate
simulate(request, o) ==
    /\ last.op = "idle"
    /\ o \in ServiceOutcomes(loaded, request.base_model, FALSE)
    /\ last' = [op |-> "simulate", raised |-> FALSE, request |-> request,
                call |-> o, response |-> Simulate(loaded, request, o)]
    /\ UNCHANGED <<models, weights, performance_metrics, file>>
    /\ UNCHANGED outside

\* scenarios.py lines 55-63: GET /scenarios returns the listing the manager
\* builds for this call
get_scenarios ==
    /\ last.op = "idle"
    /\ last' = [op |-> "get_scenarios", raised |-> FALSE,
                ret |-> get_available_scenarios]
    /\ UNCHANGED <<models, weights, performance_metrics, file>>
    /\ UNCHANGED outside

\* the requests of the schema ScenarioRequest that are sent
Requests ==
    [scenario_id : ScenarioIds, events : RequestEvents,
     custom_shocks : RequestShocks, horizon : RequestHorizons,
     base_model : RequestModels]

\* get_forecast_service(): the service after load_all_models
InitService ==
    /\ models = EmptyMap
    /\ weights = EmptyMap
    /\ performance_metrics = EmptyMap
    /\ file = NoFile
    /\ last = Idle
    /\ loaded \in ServiceLoads
    /\ reader = NoReader

\* the calls served, one at a time
NextService ==
    \/ /\ last.op = "idle"
       /\ \E call \in ForecastCalls, o \in AllServiceOutcomes :
             forecast_volume(call[1], call[2], call[3], o)
    \/ /\ last.op = "idle"
       /\ \E request \in Requests, o \in AllServiceOutcomes :
             simulate(request, o)
    \/ get_scenarios
    \/ Return

SpecService == InitService /\ [][NextService]_vars

----------------------------------------------------------------------------
(* predict_volume in a second thread                                       *)
(*                                                                         *)
(* The class holds no lock.  Under the interpreter lock each read of       *)
(* self.weights and the assignment self.weights = ... are atomic, and      *)
(* a thread can be suspended between any two of them.  predict_volume      *)
(* reads self.weights at line 87, at line 94 once per registered model     *)
(* and at line 112 once per prediction.                                    *)

\* the weights of the ensembles used by two threads
SharedWeightVals == {Rat(1, 2), Num(1)}

SharedWeightMaps == PartialMaps(ModelNames, SharedWeightVals)

\* the records a concurrent auto_weight_by_performance is given
SharedRecords ==
    PartialMaps(ModelNames, {[mape |-> Np(10)], [mape |-> Np(40)]})

\* where the call continues: the loop of line 93 while it has names, then
\* the loop of line 111 while it has predictions, then line 118
Continue(r) ==
    [r EXCEPT !.pc = IF r.todo # {} THEN "line 94"
                     ELSE IF r.left # {} THEN "line 112"
                     ELSE "line 118"]

\* the second thread calls predict_volume: line 87 reads self.weights;
\* o is what the predict of each registered model does when called
reader_call(steps, o) ==
    /\ reader.pc = "none"
    /\ last.op = "idle"
    /\ o \in EvalOracles(models)
    /\ reader' =
          IF NoWeights(weights)
          THEN [pc |-> "done", raised |-> TRUE, steps |-> steps, o |-> o,
                old |-> weights]
          ELSE Continue([pc |-> "line 87", raised |-> FALSE, steps |-> steps,
                         o |-> o, old |-> weights, todo |-> DOMAIN models,
                         left |-> {},
                         acc |-> [pred |-> Zeros(steps), total |-> Num(0)]])
    /\ UNCHANGED <<models, weights, performance_metrics, file, last, loaded>>

\* lines 93-106 for one name: line 94 reads self.weights; a model that is
\* weighted is called and its forecast kept
reader_select ==
    /\ reader.pc = "line 94"
    /\ \E name \in reader.todo :
          reader' =
              Continue([reader EXCEPT
                  !.todo = @ \ {name},
                  !.left = IF name \in DOMAIN weights /\ reader.o[name].ok
                           THEN @ \cup {name} ELSE @])
    /\ UNCHANGED <<models, weights, performance_metrics, file, last, loaded>>

\* lines 111-114 for one prediction: line 112 reads self.weights
reader_combine ==
    /\ reader.pc = "line 112"
    /\ \E name \in reader.left :
          LET weight == IF name \in DOMAIN weights THEN weights[name]
                        ELSE Num(0)
          IN  reader' =
                  Continue([reader EXCEPT
                      !.left = @ \ {name},
                      !.acc = [pred |-> VecAdd(@.pred,
                                   VecScale(weight,
                                       Forecast(reader.o[name].base,
                                                reader.steps))),
                               total |-> Add(@.total, weight)]])
    /\ UNCHANGED <<models, weights, performance_metrics, file, last, loaded>>

\* lines 118-121
reader_finish ==
    /\ reader.pc = "line 118"
    /\ reader' = [pc |-> "done", raised |-> FALSE, steps |-> reader.steps,
                  o |-> reader.o, old |-> reader.old,
                  ret |-> Renormalize(reader.acc)]
    /\ UNCHANGED <<models, weights, performance_metrics, file, last, loaded>>

\* the second thread takes the result
reader_return ==
    /\ reader.pc = "done"
    /\ reader' = NoReader
    /\ UNCHANGED <<models, weights, performance_metrics, file, last, loaded>>

\* an ensemble shared by two threads
InitShared ==
    /\ models \in Registries
    /\ weights \in SharedWeightMaps
    /\ performance_metrics = EmptyMap
    /\ file = NoFile
    /\ last = Idle
    /\ loaded = NothingLoaded
    /\ reader = NoReader

\* one thread sets the weights, at most once while the other thread is
\* inside predict_volume
NextShared ==
    \/ /\ last.op = "idle"
       /\ \E w \in SharedWeightMaps : set_weights(w)
    \/ /\ last.op = "idle"
       /\ \E metrics \in SharedRecords :
             auto_weight_by_performance(metrics, "mape")
    \/ /\ reader.pc = "none"
       /\ Return
    \/ \E steps \in 1..MaxSteps, o \in AllEvalOracles : reader_call(steps, o)
    \/ reader_select
    \/ reader_combine
    \/ reader_finish
    \/ reader_return

SpecShared == InitShared /\ [][NextShared]_vars

----------------------------------------------------------------------------
(* Properties of the Ensemble Combiner                                     *)

\* |x - 1| > 1e-6, written without abs()
FarFromOne(x) == Gt(Sub(x, Num(1)), Tol) \/ Gt(Sub(Num(1), x), Tol)

\* C1: set_weights(w) raises exactly when |sum(w.values()) - 1| > 1e-6 or a
\* key of w is not a registered model; when it raises the WeightMap is what
\* it was before the call, otherwise the WeightMap is exactly w.
C1_SetWeightsAllOrNothing ==
    [][last'.op = "set_weights" =>
          /\ last'.raised <=>
                \/ FarFromOne(SumValues(last'.w))
                \/ ~(DOMAIN last'.w \subseteq DOMAIN models)
          /\ last'.raised => weights' = weights
          /\ ~last'.raised => weights' = last'.w
          /\ models' = models]_vars

\* C1 witness: a call whose weights sum to 1 is rejected for an unknown
\* name and leaves a non-empty WeightMap in place
C1_Witness ==
    /\ last.op = "set_weights"
    /\ last.raised
    /\ ~FarFromOne(SumValues(last.w))
    /\ weights # EmptyMap
    /\ weights # last.w

\* C2: every key of the WeightMap is a key of the model registry, after
\* construction and after every operation.
C2_WeightsAreRegistered == DOMAIN weights \subseteq DOMAIN models

NonNegative(x) == IsFinite(x) /\ x.n >= 0

\* C3: no call of add_model, set_weights or auto_weight_by_performance
\* installs a negative weight: every weight a call adds or changes is >= 0.
C3_NoNegativeWeightInstalled ==
    [][last'.op \in {"add_model", "set_weights", "auto_weight_by_performance"} =>
          \A name \in DOMAIN weights' :
              (name \notin DOMAIN weights \/ weights'[name] # weights[name])
                  => NonNegative(weights'[name])]_vars

\* the record of the last auto_weight_by_performance call gives every model
\* a strictly positive value for the metric
AllPositive(metrics, metric) ==
    \A name \in DOMAIN metrics :
        /\ metric \in DOMAIN metrics[name]
        /\ Gt(metrics[name][metric].x, Num(0))

\* 1/s for a finite s > 0
Reciprocal(x) == Rat(x.d, x.n)

\* the WeightMap is the inverse-error weighting of the record: keys are the
\* record's names, w_m * s_m * sum_k(1/s_k) = 1, the weights sum to 1 and a
\* lower error has a higher weight
InverseErrorWeights(w, metrics, metric) ==
    LET S == DOMAIN metrics
        s == [name \in S |-> metrics[name][metric].x]
        total == SumOver([name \in S |-> Reciprocal(s[name])], S)
    IN  /\ DOMAIN w = S
        /\ \A m \in S : Mul(Mul(w[m], s[m]), total) = Num(1)
        /\ SumValues(w) = Num(1)
        /\ \A a, b \in S : Gt(s[b], s[a]) => Gt(w[a], w[b])

\* C4 as stated: for every record whose values are all strictly positive,
\* auto_weight_by_performance installs the inverse-error weighting, whose
\* weights sum to 1.
C4_AutoWeightAnyRecord ==
    (/\ last.op = "auto_weight_by_performance"
     /\ AllPositive(last.metrics, last.metric))
        => /\ ~last.raised
           /\ InverseErrorWeights(weights, last.metrics, last.metric)

\* C4 amended: the same for every non-empty record; for the empty record the
\* call installs the empty WeightMap, whose weights sum to 0.
C4_AutoWeightNonEmptyRecord ==
    (/\ last.op = "auto_weight_by_performance"
     /\ AllPositive(last.metrics, last.metric))
        => /\ ~last.raised
           /\ DOMAIN last.metrics # {}
                 => InverseErrorWeights(weights, last.metrics, last.metric)
           /\ DOMAIN last.metrics = {} => weights = EmptyMap

\* C4 witness: the record {sarima: 10, lstm: 20} gives sarima 2/3, lstm 1/3
C4_Witness ==
    /\ last.op = "auto_weight_by_performance"
    /\ ~last.raised
    /\ last.metric = "mape"
    /\ DOMAIN last.metrics = {"sarima", "lstm"}
    /\ last.metrics["sarima"]["mape"].x = Num(10)
    /\ last.metrics["lstm"]["mape"].x = Num(20)
    /\ weights["sarima"] = Rat(2, 3)
    /\ weights["lstm"] = Rat(1, 3)

\* C5: auto_weight_by_performance raises when the metric value of a model
\* of the record is 0 or missing, and then leaves the WeightMap as it was.
C5_AutoWeightRejectsZero ==
    [][(/\ last'.op = "auto_weight_by_performance"
        /\ \E name \in DOMAIN last'.metrics :
              \/ last'.metric \notin DOMAIN last'.metrics[name]
              \/ last'.metrics[name][last'.metric].x = Num(0))
          => /\ last'.raised
             /\ weights' = weights]_vars

\* the models whose invocation returned in the last fan-out
Succeeded == {name \in DOMAIN last.calls : last.calls[name].ok}

\* sum_i(w_i * f_i[i]) over the models that returned, f_i the point forecast
BlendAt(i) ==
    SumOver([name \in Succeeded |->
                Mul(weights[name], Forecast(last.calls[name].base, last.steps)[i])],
            Succeeded)

\* the weight actually used: the weights of the models that returned
WeightUsed == SumOver([name \in Succeeded |-> weights[name]], Succeeded)

\* C6: predict_volume invokes only registered and weighted models, and when
\* the weights W of the models that returned sum to more than 0 its result
\* is sum_i(w_i * f_i) / W, the division being skipped when |W - 1| <= 1e-6.
C6_PredictVolumeWeightedAverage ==
    (last.op = "predict_volume" /\ ~last.raised) =>
        /\ DOMAIN last.calls \subseteq (DOMAIN models) \cap (DOMAIN weights)
        /\ Gt(WeightUsed, Num(0)) =>
              /\ DOMAIN last.ret = 1..last.steps
              /\ \A i \in 1..last.steps :
                    last.ret[i] =
                        IF FarFromOne(WeightUsed)
                        THEN Mul(BlendAt(i), Reciprocal(WeightUsed))
                        ELSE BlendAt(i)

\* C6 witness: two models of weight 0.5, one fails, the other forecasts
\* [30, 40]: the result is [30, 40]
C6_Witness ==
    /\ last.op = "predict_volume"
    /\ ~last.raised
    /\ last.steps = 2
    /\ weights = [sarima |-> Rat(1, 2), lstm |-> Rat(1, 2)]
    /\ DOMAIN last.calls = {"sarima", "lstm"}
    /\ ~last.calls["sarima"].ok
    /\ last.calls["lstm"] = Returned(30)
    /\ last.ret = <<Num(30), Num(40)>>

\* the models a fan-out of the given operation reaches in the current state
Reached(op) ==
    IF op = "predict_volume" /\ weights = EmptyMap THEN {}
    ELSE {name \in (DOMAIN models) \cap (DOMAIN weights) :
             op = "predict_with_intervals"
                 => models[name] # "XGBoostForecastModel"}

\* C7: predict_volume and predict_with_intervals leave the WeightMap and the
\* registry as they are, whatever the members do, and each call invokes
\* every registered, weighted model again, also one that failed before.
C7_PredictionsChangeNothing ==
    [][last'.op \in {"predict_volume", "predict_with_intervals"} =>
          /\ weights' = weights
          /\ models' = models
          /\ DOMAIN last'.calls = Reached(last'.op)]_vars

\* C7 witness: a call in which a weighted member failed; its weight is
\* still in the WeightMap
C7_Witness ==
    /\ last.op \in {"predict_volume", "predict_with_intervals"}
    /\ \E name \in DOMAIN last.calls :
          ~last.calls[name].ok /\ name \in DOMAIN weights

\* C8: predict_volume raises when the WeightMap is empty, whatever is
\* registered, and invokes no model before.
C8_PredictVolumeNeedsWeights ==
    [][(last'.op = "predict_volume" /\ weights = EmptyMap) =>
          /\ last'.raised
          /\ last'.calls = EmptyMap]_vars

\* C8 witness: the call raised with models registered
C8_Witness ==
    /\ last.op = "predict_volume"
    /\ last.raised
    /\ weights = EmptyMap
    /\ models # EmptyMap

\* C9: with a non-empty WeightMap, when no invocation returns (all fail, or
\* no weighted model is registered) predict_volume raises nothing and
\* returns the zero vector of length steps.
C9_AllFailedGivesZeros ==
    [][(/\ last'.op = "predict_volume"
        /\ weights # EmptyMap
        /\ \A name \in DOMAIN last'.calls : ~last'.calls[name].ok)
          => /\ ~last'.raised
             /\ last'.ret = [i \in 1..last'.steps |-> Num(0)]]_vars

\* C9 witness: two weighted members were invoked, both failed, zeros returned
C9_Witness ==
    /\ last.op = "predict_volume"
    /\ ~last.raised
    /\ DOMAIN last.calls = {"sarima", "lstm"}
    /\ \A name \in DOMAIN last.calls : ~last.calls[name].ok
    /\ last.ret = <<Num(0), Num(0)>>

\* sum_i(w_i * x_i[i]) over the models that returned, x_i the forecast
\* shifted by delta (0: forecast, -5: ci_lower, 5: ci_upper)
ShiftedBlendAt(i, delta) ==
    SumOver([name \in Succeeded |->
                Mul(weights[name],
                    Num(last.calls[name].base + 10 * (i - 1) + delta))],
            Succeeded)

C11_IntervalsNeedOneResult ==
    [][last'.op = "predict_with_intervals" =>
          /\ (\A name \in DOMAIN last'.calls : ~last'.calls[name].ok)
                => last'.raised
          /\ (weights = EmptyMap
                \/ \A name \in (DOMAIN weights) \cap (DOMAIN models) :
                      models[name] = "XGBoostForecastModel")
                => last'.raised
          /\ ~last'.raised =>
                \E name \in DOMAIN last'.calls : last'.calls[name].ok]_vars

\* C11 witness: two weighted members were invoked, both failed, the call
\* raised
C11_Witness ==
    /\ last.op = "predict_with_intervals"
    /\ last.raised
    /\ DOMAIN last.calls = {"sarima", "lstm"}
    /\ DOMAIN weights = {"sarima", "lstm"}

----------------------------------------------------------------------------
(* Properties of evaluate_models                                           *)

\* C12: evaluate_models invokes every registered model, weighted or not; a
\* model whose forecast or metrics fail is left out and the others are still
\* evaluated; the returned record has exactly the names of the models that
\* succeeded, the performance cache becomes that record, and the WeightMap
\* is unchanged.
C12_EvaluateOmitsFailures ==
    [][last'.op = "evaluate_models" =>
          /\ ~last'.raised
          /\ DOMAIN last'.calls = DOMAIN models
          /\ DOMAIN last'.ret =
                {name \in DOMAIN models :
                    /\ last'.calls[name].ok
                    /\ ~MetricsRaise(last'.test_data)}
          /\ performance_metrics' = last'.ret
          /\ weights' = weights]_vars

\* C12 witness: of two registered models, one of them unweighted, one failed
\* and the other is the only name of the record
C12_Witness ==
    /\ last.op = "evaluate_models"
    /\ DOMAIN models = {"sarima", "lstm"}
    /\ DOMAIN weights = {"sarima"}
    /\ ~last.calls["sarima"].ok
    /\ DOMAIN last.ret = {"lstm"}
    /\ performance_metrics = last.ret

\* C13: when the evaluation of every registered model fails, evaluate_models
\* raises; it does not return an empty record.
C13_AllFailedEvaluationRaises ==
    [][(/\ last'.op = "evaluate_models"
        /\ DOMAIN models # {}
        /\ \A name \in DOMAIN models :
              ~last'.calls[name].ok \/ MetricsRaise(last'.test_data))
          => last'.raised]_vars

\* C14: no model is recorded with an infinite or NaN mape, whatever zero
\* the test series holds.
C14_NoNonFiniteMape ==
    \A name \in DOMAIN performance_metrics :
        IsFinite(performance_metrics[name].mape.x)

----------------------------------------------------------------------------
(* Properties of the exogenous overlay                                     *)

\* the date lies within [start, end] of the k-th interval of the event
LiesWithin(date, e, k) ==
    LET p == event_definitions[e].historical_periods[k]
    IN  /\ \/ p.start.year < date.year
           \/ p.start.year = date.year /\ p.start.month <= date.month
        /\ \/ date.year < p.end.year
           \/ date.year = p.end.year /\ date.month <= p.end.month

\* the value the column of event e may have at a date: severity *
\* impact_multiplier of an interval that holds the date, intensity *
\* impact_multiplier if the date's quarter is in the pattern, else 0
ColumnValueOk(v, e, date) ==
    LET def == event_definitions[e]
        holding == {k \in DOMAIN def.historical_periods : LiesWithin(date, e, k)}
        q == ((date.month + 2) \div 3)
    IN  /\ holding # {} =>
              \E k \in holding :
                  v = Mul(def.historical_periods[k].severity,
                          def.impact_multiplier)
        /\ q \in DOMAIN def.seasonal_pattern =>
              v = Mul(def.seasonal_pattern[q], def.impact_multiplier)
        /\ (holding = {} /\ q \notin DOMAIN def.seasonal_pattern) => v = Num(0)

\* C15: create_exogenous_features returns exactly one column per requested
\* event and none for an unrequested one; at every date the value is
\* severity * impact_multiplier if the date lies within an interval of the
\* event, intensity * impact_multiplier if the date's quarter is in the
\* event's seasonal pattern, and 0 otherwise.
C15_OneColumnPerRequestedEvent ==
    last.op = "create_exogenous_features" =>
        /\ DOMAIN last.ret = last.enabled_events
        /\ \A e \in last.enabled_events :
              /\ DOMAIN last.ret[e] = DOMAIN last.date_range
              /\ \A i \in DOMAIN last.date_range :
                    ColumnValueOk(last.ret[e][i], e, last.date_range[i])

\* C15 witness: covid_19 and extreme_weather requested, wildfire not, over
\* June and July 2021, the last month of one covid interval and the first
\* of the next
C15_Witness ==
    /\ last.op = "create_exogenous_features"
    /\ last.enabled_events = {"covid_19", "extreme_weather"}
    /\ last.date_range = <<Date(2021, 6), Date(2021, 7)>>
    /\ last.ret["covid_19"] = <<Rat(0 - 48, 100), Rat(0 - 24, 100)>>
    /\ last.ret["extreme_weather"] = <<Rat(0 - 3, 100), Rat(0 - 75, 1000)>>

\* sum of the returned feature values of the enabled events at period i
RECURSIVE EventSum(_, _, _)
EventSum(features, S, i) ==
    IF S = {} THEN Num(0)
    ELSE LET e == CHOOSE k \in S : TRUE
         IN  Add(EventSum(features, S \ {e}, i), features[e][i])

\* C16: simulate_scenario adds the enabled events' feature values at each
\* period into total_impact and returns adjusted_forecast[i] =
\* base_forecast[i] * (1 + total_impact[i]); with no event and no custom
\* shock adjusted_forecast equals base_forecast.
C16_EventsAddUp ==
    last.op = "simulate_scenario" =>
        /\ DOMAIN last.ret.exogenous_features = last.scenario.events
        /\ \A i \in DOMAIN last.date_range :
              /\ \A e \in last.scenario.events :
                    ColumnValueOk(last.ret.exogenous_features[e][i], e,
                                  last.date_range[i])
              /\ last.scenario.custom_shocks = << >> =>
                    last.ret.total_impact[i] =
                        EventSum(last.ret.exogenous_features,
                                 last.scenario.events, i)
              /\ last.ret.adjusted_forecast[i] =
                    Mul(last.ret.base_forecast[i],
                        Add(Num(1), last.ret.total_impact[i]))
        /\ (last.scenario.events = {} /\ last.scenario.custom_shocks = << >>)
              => last.ret.adjusted_forecast = last.ret.base_forecast

\* C16 witness: recession, wildfire and extreme weather over April 2020:
\* -0.28 + 0 - 0.03 = -0.31, and 100 becomes 69
C16_Witness ==
    /\ last.op = "simulate_scenario"
    /\ last.scenario.events =
          {"economic_recession", "wildfire", "extreme_weather"}
    /\ last.scenario.custom_shocks = << >>
    /\ last.date_range[1] = Date(2020, 4)
    /\ last.ret.total_impact[1] = Rat(0 - 31, 100)
    /\ last.ret.base_forecast[1] = Num(100)
    /\ last.ret.adjusted_forecast[1] = Num(69)

\* sum of the impacts of the first k shocks whose period is the quarter of
\* the date
RECURSIVE MatchingShocks(_, _, _)
MatchingShocks(custom_shocks, k, date) ==
    IF k = 0 THEN Num(0)
    ELSE IF /\ custom_shocks[k].period.year = date.year
            /\ custom_shocks[k].period.quarter = ((date.month + 2) \div 3)
         THEN Add(MatchingShocks(custom_shocks, k - 1, date),
                  custom_shocks[k].impact)
         ELSE MatchingShocks(custom_shocks, k - 1, date)

\* C17: a custom shock changes total_impact only at the period of the date
\* range that matches the shock's period; every other period keeps the
\* impact of the events.
C17_ShockOnlyAtItsPeriod ==
    last.op = "simulate_scenario" =>
        \A i \in DOMAIN last.date_range :
            last.ret.total_impact[i] =
                Add(EventSum(last.ret.exogenous_features,
                             last.scenario.events, i),
                    MatchingShocks(last.scenario.custom_shocks,
                                   Len(last.scenario.custom_shocks),
                                   last.date_range[i]))

----------------------------------------------------------------------------
(* Properties of the forecast service and the /simulate endpoint           *)

\* the identifiers of the predefined scenarios
KnownScenarioIds ==
    {"optimistic", "baseline", "pessimistic", "wildfire_season",
     "olympics_2028", "regulatory_crackdown"}

\* C18: a /simulate request with a scenario_id that matches no predefined
\* scenario ends with status 404, and a request whose events hold a string
\* that is no ExogenousEventType ends with status 400; neither ends with 500.
C18_ClientErrorsKeepTheirStatus ==
    last.op = "simulate" =>
        /\ (/\ last.request.scenario_id # ""
            /\ last.request.scenario_id \notin KnownScenarioIds)
              => last.response.status = 404
        /\ (/\ last.request.scenario_id = ""
            /\ \E i \in DOMAIN last.request.events :
                  last.request.events[i] \notin EventTypes)
              => last.response.status = 400

\* the call fell back: the name is not loaded, or the model call raised
FellBack ==
    \/ last.model \notin DOMAIN loaded
    \/ ~last.call.ok

\* the result is the projection 44594 * 1.03^(i+1), i = 0..horizon-1, with
\* its 0.95 and 1.05 multiples, each of length horizon
IsProjection(ret, horizon) ==
    /\ DOMAIN ret = {"forecast", "ci_lower", "ci_upper"}
    /\ Len(ret.forecast) = horizon
    /\ Len(ret.ci_lower) = horizon
    /\ Len(ret.ci_upper) = horizon
    /\ \A i \in 0..(horizon - 1) :
          /\ ret.forecast[i + 1] = [c |-> Num(44594), e |-> i + 1]
          /\ ret.ci_lower[i + 1] = [c |-> Rat(423643, 10), e |-> i + 1]
          /\ ret.ci_upper[i + 1] = [c |-> Rat(468237, 10), e |-> i + 1]

\* C19: forecast_volume never raises, for any horizon >= 1, any model name
\* and any behaviour of the loaded objects; when the name is not loaded or
\* the model call raises it returns the projection.
C19_ForecastVolumeNeverRaises ==
    last.op = "forecast_volume" =>
        /\ ~last.raised
        /\ FellBack => IsProjection(last.ret, last.horizon)

\* C19 amended: the same for every horizon from 1 to 24012; from 24013 on
\* the projection raises OverflowError.
C19_ForecastVolumeUpToPowLimit ==
    last.op = "forecast_volume" =>
        /\ last.horizon <= 24012 =>
              /\ ~last.raised
              /\ FellBack => IsProjection(last.ret, last.horizon)
        /\ (last.horizon > 24012 /\ FellBack) => last.raised

\* C19 witness: the loaded SARIMA adapter raised and the call returned the
\* projection for three quarters
C19_Witness ==
    /\ last.op = "forecast_volume"
    /\ "sarima" \in DOMAIN loaded
    /\ last.model = "sarima"
    /\ last.call = Raised("ValueError")
    /\ last.horizon = 3
    /\ ~last.raised
    /\ last.ret.forecast[3] = [c |-> Num(44594), e |-> 3]

----------------------------------------------------------------------------
(* Properties of concurrent use                                            *)

\* what predict_volume gives under the WeightMap w alone, the models
\* behaving as in o
Combination(w, o, steps) ==
    IF w = EmptyMap THEN [raised |-> TRUE]
    ELSE LET called == [name \in (DOMAIN o) \cap (DOMAIN w) |-> o[name]]
         IN  [raised |-> FALSE,
              ret |-> Renormalize(
                        WeightedSum(Predictions(called, steps), w,
                                    DOMAIN Predictions(called, steps), steps))]

\* the outcome of the finished call of the second thread
ReaderOutcome ==
    IF reader.raised THEN [raised |-> TRUE]
    ELSE [raised |-> FALSE, ret |-> reader.ret]

\* C20: a predict_volume call that runs while the weights are set returns
\* the combination under the WeightMap before the update or the combination
\* under the WeightMap after it.
C20_ReadsOneWeightMap ==
    reader.pc = "done" =>
        \/ ReaderOutcome = Combination(reader.old, reader.o, reader.steps)
        \/ ReaderOutcome = Combination(weights, reader.o, reader.steps)

----------------------------------------------------------------------------
(* Further properties of the Ensemble Combiner                             *)

\* a <= b on floats: False when either is NaN
Le(a, b) == ~IsNaN(a) /\ ~IsNaN(b) /\ (a = b \/ Gt(b, a))

\* C21: every member's interval result has ci_lower <= forecast <= ci_upper
\* (the adapters' results do), so the result of predict_with_intervals has
\* ci_lower[i] <= forecast[i] <= ci_upper[i] for every i, under every
\* WeightMap that add_model, set_weights and auto_weight_by_performance
\* install.
C21_EnsembleIntervalOrdered ==
    (last.op = "predict_with_intervals" /\ ~last.raised) =>
        \A i \in 1..last.steps :
            /\ Le(last.ret.ci_lower[i], last.ret.forecast[i])
            /\ Le(last.ret.forecast[i], last.ret.ci_upper[i])

\* what predict_volume gives for the WeightMap w and the invocations calls
PredictVolumeResult(w, calls, steps) ==
    Renormalize(WeightedSum(Predictions(calls, steps), w,
                            DOMAIN Predictions(calls, steps), steps))

\* C22: save writes the WeightMap and the performance record; load with
\* models gives an ensemble whose WeightMap and performance record equal the
\* saved ones; and predict_volume of an ensemble whose WeightMap is the saved
\* one returns what the saved WeightMap and the inputs determine, so the
\* saved and the loaded ensemble return the same output for the same inputs.
C22_SaveLoadRoundTrip ==
    [][/\ last'.op = "save" =>
            /\ file'.exists
            /\ file'.weights = weights
            /\ file'.performance_metrics = performance_metrics
       /\ (last'.op = "load" /\ ~last'.raised) =>
            /\ weights' = file.weights
            /\ performance_metrics' = file.performance_metrics
            /\ file' = file
       /\ (last'.op = "predict_volume" /\ file.exists
              /\ weights = file.weights) =>
            /\ last'.raised = NoWeights(file.weights)
            /\ ~last'.raised =>
                  last'.ret = PredictVolumeResult(file.weights, last'.calls,
                                                  last'.steps)]_vars

\* an ensemble loaded from a bundle that holds weights and a performance
\* record, with a registry that has the weighted models
C22_Witness ==
    /\ last.op = "load" /\ ~last.raised
    /\ file.weights # EmptyMap
    /\ file.performance_metrics # EmptyMap
    /\ DOMAIN weights \subseteq DOMAIN models

----------------------------------------------------------------------------
(* Further properties of the scenario simulator and the service            *)

\* C23: get_available_scenarios returns exactly six templates whose ids are
\* optimistic, baseline, pessimistic, wildfire_season, olympics_2028 and
\* regulatory_crackdown, pairwise distinct; every call returns this same
\* listing, whatever /simulate requests, predefined or custom, were served
\* before it.
C23_SixStableTemplates ==
    last.op = "get_scenarios" =>
        /\ Len(last.ret) = 6
        /\ {last.ret[k].id : k \in 1..Len(last.ret)} = KnownScenarioIds
        /\ \A j, k \in 1..Len(last.ret) :
              last.ret[j].id = last.ret[k].id => j = k
        /\ last.ret = get_available_scenarios

\* the listing is returned
C23_Witness ==
    /\ last.op = "get_scenarios"
    /\ Len(last.ret) = 6
    /\ last.ret[5].id = "olympics_2028"

\* the intervals of an event that cover a date, by their place in the list
Covering(event_def, date) ==
    {k \in DOMAIN event_def.historical_periods :
        /\ Months(date) >= Months(event_def.historical_periods[k].start)
        /\ Months(date) <= Months(event_def.historical_periods[k].end)}

Latest(S) == CHOOSE k \in S : \A j \in S : j <= k

\* C24: in the frame of create_exogenous_features a date covered by several
\* intervals of an event has the value of the interval listed last among
\* them, severity * impact_multiplier, and not their sum; a date whose
\* quarter is in the event's seasonal pattern has the seasonal value
\* intensity * impact_multiplier, whatever the intervals gave it.
C24_LastIntervalThenSeason ==
    last.op = "create_exogenous_features_with" =>
        \A e \in last.enabled_events : \A i \in DOMAIN last.date_range :
            LET event_def == last.definitions[e]
                date == last.date_range[i]
                cover == Covering(event_def, date)
                value == last.ret[e][i]
            IN  IF Quarter(date) \in DOMAIN event_def.seasonal_pattern
                THEN value = Mul(event_def.seasonal_pattern[Quarter(date)],
                                 event_def.impact_multiplier)
                ELSE IF cover = {} THEN value = Num(0)
                ELSE value =
                       Mul(event_def.historical_periods[Latest(cover)].severity,
                           event_def.impact_multiplier)

\* one frame with a date covered by two intervals of different severity and
\* outside the pattern, and a date covered by an interval whose quarter is
\* in the pattern
C24_Witness ==
    /\ last.op = "create_exogenous_features_with"
    /\ "wildfire" \in last.enabled_events
    /\ LET event_def == last.definitions["wildfire"]
       IN  /\ \E i \in DOMAIN last.date_range :
                 /\ Cardinality(Covering(event_def, last.date_range[i])) = 2
                 /\ event_def.historical_periods[1].severity
                       # event_def.historical_periods[2].severity
                 /\ Quarter(last.date_range[i])
                       \notin DOMAIN event_def.seasonal_pattern
           /\ \E i \in DOMAIN last.date_range :
                 /\ Covering(event_def, last.date_range[i]) # {}
                 /\ Quarter(last.date_range[i])
                       \in DOMAIN event_def.seasonal_pattern

\* C25: when the requested name is loaded and the model's forecasting
\* succeeds, forecast_volume returns that model's forecast and not the
\* projection; with the bundle written by save loaded from
\* ensemble_volume.pkl, the model 'ensemble' is such a model: the call
\* returns the combiner's forecast and does not fall back.
C25_LoadedModelIsUsed ==
    last.op = "forecast_volume" =>
        /\ last.call.ok =>
              /\ ~last.fallback
              /\ last.ret.forecast = Forecast(last.call.base, last.horizon)
        /\ (last.model = "ensemble" /\ "ensemble" \in DOMAIN loaded) =>
              \/ last.call.ok /\ ~last.fallback
              \/ last.call = Raised("ValueError")

\* C26: a volume adapter registered under its conventional name and
\* weighted is reached by the calls of predict_volume,
\* predict_with_intervals and evaluate_models: no invocation fails with
\* TypeError because the arguments do not bind to the adapter's parameters.
C26_CallsMatchAdapters ==
    (/\ last.op \in {"predict_volume", "predict_with_intervals",
                     "evaluate_models"}
     /\ \A name \in DOMAIN models : models[name] = ConventionalNames[name])
        => \A name \in DOMAIN last.calls : last.calls[name].err # "TypeError"

\* the request names a predefined scenario, or lists event types only
WellFormed(request) ==
    \/ request.scenario_id \in KnownScenarioIds
    \/ request.scenario_id = "" /\ Range(request.events) \subseteq EventTypes

\* C27: for every horizon from 1 to 12 the period labels of /simulate are
\* one per period, pairwise distinct, each a quarter 1..4 of a year, in
\* calendar order, and the endpoint converts them to dates and answers a
\* well-formed request with status 200.
C27_LabelsAreQuarters ==
    (last.op = "simulate" /\ WellFormed(last.request)
        /\ last.request.horizon \in 1..12) =>
        /\ last.response.status = 200
        /\ Len(last.response.periods) = last.request.horizon
        /\ \A i \in DOMAIN last.response.periods :
              last.response.periods[i].quarter \in 1..4
        /\ \A i, j \in DOMAIN last.response.periods :
              i < j => \/ last.response.periods[i].year
                            < last.response.periods[j].year
                       \/ /\ last.response.periods[i].year
                               = last.response.periods[j].year
                          /\ last.response.periods[i].quarter
                               < last.response.periods[j].quarter

\* the impacts the schema CustomShock accepts: -1.0 <= impact <= 2.0
ShockInBounds(shock) ==
    Le(Num(0 - 1), shock.impact) /\ Le(shock.impact, Num(2))

\* C28: for a base forecast without a negative value, any enabled events and
\* custom shocks each within [-1.0, 2.0], simulate_scenario returns no
\* negative adjusted_forecast value: total_impact[i] >= -1 at every period.
C28_AdjustedForecastNotNegative ==
    (/\ last.op = "simulate_scenario"
     /\ \A i \in DOMAIN last.ret.base_forecast :
           Le(Num(0), last.ret.base_forecast[i])
     /\ \A k \in DOMAIN last.scenario.custom_shocks :
           ShockInBounds(last.scenario.custom_shocks[k]))
        => \A i \in DOMAIN last.ret.adjusted_forecast :
              /\ Le(Num(0 - 1), last.ret.total_impact[i])
              /\ Le(Num(0), last.ret.adjusted_forecast[i])

\* the catalog events that have intervals and no seasonal pattern
IntervalOnly ==
    {"covid_19", "wildfire", "economic_recession", "major_event",
     "regulatory_change"}

\* C29: in every /simulate answer for a horizon from 1 to 8 (quarter starts
\* from 2024Q1) each interval-only catalog event contributes 0 at every
\* period, total_impact is the extreme_weather column plus the custom
\* shocks, and the predefined scenario 'optimistic' returns adjusted_forecast
\* equal to base_forecast.
C29_IntervalEventsContributeNothing ==
    (last.op = "simulate" /\ last.request.horizon \in 1..8
        /\ last.response.status = 200) =>
        LET body == last.response.body
            features == body.exogenous_features
            shocks == IF last.request.scenario_id = ""
                      THEN last.request.custom_shocks
                      ELSE << >>
        IN  /\ \A e \in (DOMAIN features) \cap IntervalOnly :
                  \A i \in 1..last.request.horizon : features[e][i] = Num(0)
            /\ last.request.scenario_id = "" =>
                  \A i \in 1..last.request.horizon :
                      body.total_impact[i] =
                          WithShocks(IF "extreme_weather" \in DOMAIN features
                                     THEN features["extreme_weather"][i]
                                     ELSE Num(0),
                                     shocks, Len(shocks))
            /\ last.request.scenario_id = "optimistic" =>
                  /\ DOMAIN features = {"major_event"}
                  /\ body.adjusted_forecast = body.base_forecast

\* 'optimistic' simulated over eight quarters, and answered
C29_Witness ==
    /\ last.op = "simulate"
    /\ last.request.scenario_id = "optimistic"
    /\ last.request.horizon = 8
    /\ last.response.status = 200
    /\ last.response.body.exogenous_features["major_event"][8] = Num(0)
    /\ Len(last.response.body.adjusted_forecast) = 8

----------------------------------------------------------------------------
(* Convexity of the blend                                                  *)

\* x lies between the smallest and the largest of scale * f[i] over the
\* models that returned
WithinForecasts(x, scale, i) ==
    /\ \E name \in Succeeded :
          Le(Mul(scale, Forecast(last.calls[name].base, last.steps)[i]), x)
    /\ \E name \in Succeeded :
          Le(x, Mul(scale, Forecast(last.calls[name].base, last.steps)[i]))

\* predict_volume returned under non-negative weights, the weights of the
\* models that returned summing to more than 0
BlendedNonNegative ==
    /\ last.op = "predict_volume" /\ ~last.raised
    /\ \A name \in DOMAIN weights : NonNegative(weights[name])
    /\ Gt(WeightUsed, Num(0))

\* C30: when all weights are non-negative and the weights of the models
\* that returned sum to more than 0, every element of predict_volume's
\* result lies between the smallest and the largest of those models'
\* forecasts at that index, also when the weights do not sum to 1.
C30_ConvexCombination ==
    BlendedNonNegative =>
        \A i \in 1..last.steps : WithinForecasts(last.ret[i], Num(1), i)

\* C30 amended: the same whenever the weight used W differs from 1 by more
\* than 1e-6 or equals 1; for 0 < |W - 1| <= 1e-6 the sum is not divided
\* and every element lies between W times the smallest and W times the
\* largest forecast.
C30_ConvexOutsideTolerance ==
    BlendedNonNegative =>
        \A i \in 1..last.steps :
            IF FarFromOne(WeightUsed) \/ WeightUsed = Num(1)
            THEN WithinForecasts(last.ret[i], Num(1), i)
            ELSE WithinForecasts(last.ret[i], WeightUsed, i)

\* two models with different forecasts returned, their weights sum to 2, and
\* the result lies strictly between the two forecasts
C30_Witness ==
    /\ BlendedNonNegative
    /\ WeightUsed = Num(2)
    /\ Cardinality(Succeeded) = 2
    /\ \E a, b \in Succeeded :
          /\ Gt(last.ret[1], Forecast(last.calls[a].base, last.steps)[1])
          /\ Gt(Forecast(last.calls[b].base, last.steps)[1], last.ret[1])

====
